---------------------------- MODULE Spec2Model ----------------------------
(***************************************************************************)
(* Model of the three scripts of the repository:                           *)
(*   playlist_to_sheets.py        playlist  -> worksheet   ("playlist")    *)
(*   tests/spotify_recent_likes.py liked tracks -> console ("liked")       *)
(*   tests/xml_to_sheets.py       library export -> worksheet ("xml")      *)
(* Python strings that the code takes apart (URLs, names, arguments) are   *)
(* sequences of one-character strings.  An optional value (None or x) is   *)
(* the sequence <<>> or <<x>>.                                             *)
(***************************************************************************)
EXTENDS Integers, Sequences, FiniteSets, TLC

(***************************************************************************)
(* Bounds of the model                                                     *)
(***************************************************************************)
\* chunks concatenated into a playlist reference typed by the user
MaxUrlChunks == 4
\* chunks concatenated into a playlist name
MaxNameChunks == 3
\* length of the run of word characters that makes a name exceed the limit
LongRun == 60
\* length of the long all-word-character name
LongName == 150
\* pages the playlist-tracks endpoint can serve
MaxPages == 3
\* raw items over all pages of one playlist
MaxItems == 3
\* items of a small liked-tracks response
MaxLiked == 3
\* items of the large liked-tracks response
BigLiked == 25
\* characters of the command-line argument of the liked-tracks script
MaxArgLen == 2
\* TRACK elements of the export file
MaxDoc == 2
\* script runs against the same spreadsheet
MaxRuns == 2

(***************************************************************************)
(* Characters and strings                                                  *)
(***************************************************************************)
Lower ==
    {"a","b","c","d","e","f","g","h","i","j","k","l","m",
     "n","o","p","q","r","s","t","u","v","w","x","y","z"}
Upper ==
    {"A","B","C","D","E","F","G","H","I","J","K","L","M",
     "N","O","P","Q","R","S","T","U","V","W","X","Y","Z"}
Digits == {"0","1","2","3","4","5","6","7","8","9"}
\* the character class [a-zA-Z0-9]
Alnum == Lower \cup Upper \cup Digits
\* the character class \w (word characters)
Word == Alnum \cup {"_"}
\* the character class \s
Space == {" ", "\t", "\n"}

None == <<>>
Some(x) == <<x>>

\* s[:n] for n >= 0
Take(s, n) == SubSeq(s, 1, IF n < Len(s) THEN n ELSE Len(s))

\* s[:n] for any integer n (a negative n counts from the end)
Slice(s, n) ==
    IF n >= 0 THEN Take(s, n)
    ELSE IF Len(s) + n > 0 THEN SubSeq(s, 1, Len(s) + n) ELSE <<>>

RECURSIVE Flat(_)
\* concatenation of a sequence of strings
Flat(ss) == IF ss = <<>> THEN <<>> ELSE Head(ss) \o Flat(Tail(ss))

RECURSIVE Join(_, _)
\* sep.join(ss)
Join(sep, ss) ==
    IF ss = <<>> THEN <<>>
    ELSE IF Len(ss) = 1 THEN ss[1]
    ELSE ss[1] \o sep \o Join(sep, Tail(ss))

\* the least and the greatest element of a non-empty set of integers
Least(S) == CHOOSE i \in S : \A j \in S : i <= j
Greatest(S) == CHOOSE i \in S : \A j \in S : j <= i

\* s.split(c)[0]: the part of s before the first c
SplitFirst(s, c) ==
    LET at == {i \in 1..Len(s) : s[i] = c}
    IN  IF at = {} THEN s ELSE SubSeq(s, 1, Least(at) - 1)

\* s.lstrip(): s from its first character that is not whitespace
LStrip(s) ==
    LET ink == {i \in 1..Len(s) : s[i] \notin Space}
    IN  IF ink = {} THEN <<>> ELSE SubSeq(s, Least(ink), Len(s))

\* s.rstrip(): s up to its last character that is not whitespace
RStrip(s) ==
    LET ink == {i \in 1..Len(s) : s[i] \notin Space}
    IN  IF ink = {} THEN <<>> ELSE SubSeq(s, 1, Greatest(ink))

\* s.strip()
Strip(s) == RStrip(LStrip(s))

\* re.sub(r'[^...]', '', s) for the character class `keep`
ReSub(keep, s) == SelectSeq(s, LAMBDA c : c \in keep)

RECURSIVE Run(_, _)
\* the greedy match of [a-zA-Z0-9]* at position i of s
Run(s, i) ==
    IF i <= Len(s) /\ s[i] \in Alnum THEN <<s[i]>> \o Run(s, i + 1) ELSE <<>>

\* the literal lit stands at position i of s
LitAt(lit, s, i) ==
    /\ i + Len(lit) - 1 <= Len(s)
    /\ SubSeq(s, i, i + Len(lit) - 1) = lit

RECURSIVE ReSearch(_, _, _)
\* re.search(lit + '([a-zA-Z0-9]+)', s) scanning from position i:
\* None, or the capture group of the leftmost match
ReSearch(lit, s, i) ==
    IF i > Len(s) THEN None
    ELSE IF LitAt(lit, s, i) /\ Run(s, i + Len(lit)) # <<>>
         THEN Some(Run(s, i + Len(lit)))
    ELSE ReSearch(lit, s, i + 1)

(***************************************************************************)
(* playlist_to_sheets.py: extract_playlist_id                              *)
(***************************************************************************)
PathLit == <<"p","l","a","y","l","i","s","t","/">>
UriLit  == <<"p","l","a","y","l","i","s","t",":">>

PatternsUriFirst == <<UriLit, PathLit>>
\* the ordered list of patterns
Patterns == <<PathLit, UriLit>>

\* playlist_url.split('?')[0].split('#')[0]
StripUrl(playlist_url) == SplitFirst(SplitFirst(playlist_url, "?"), "#")

RECURSIVE TryPatterns(_, _)
TryPatterns(patterns, s) ==
    IF patterns = <<>> THEN None
    ELSE IF ReSearch(Head(patterns), s, 1) # None
         THEN ReSearch(Head(patterns), s, 1)
    ELSE TryPatterns(Tail(patterns), s)

\* None stands for the ValueError
extract_playlist_id(playlist_url) == TryPatterns(Patterns, StripUrl(playlist_url))

(***************************************************************************)
(* playlist_to_sheets.py: the worksheet name of create_sheets_worksheet    *)
(***************************************************************************)
SheetNameLimit == 100

\* re.sub(r'[^\w\s-]', '', playlist_name).strip()
Clean(playlist_name) == Strip(ReSub(Word \cup Space \cup {"-"}, playlist_name))

SheetNameOffByOne(playlist_name) ==
    IF Len(Clean(playlist_name)) > SheetNameLimit
    THEN Take(Clean(playlist_name), SheetNameLimit + 1)
    ELSE Clean(playlist_name)
SheetName(playlist_name) ==
    IF Len(Clean(playlist_name)) > SheetNameLimit
    THEN Take(Clean(playlist_name), SheetNameLimit)
    ELSE Clean(playlist_name)


(***************************************************************************)
(* State                                                                   *)
(***************************************************************************)
VARIABLES
    script,         \* which script this run executes
    pc,             \* position of the run
    runs,           \* runs started so far
    env,            \* the process environment: variable -> "unset", "empty", "set"
    stdin,          \* what the user types at the prompt (playlist script)
    argv,           \* sys.argv[1:] (liked-tracks script)
    api,            \* what the streaming service holds: name, pages, liked items
    doc,            \* the TRACK elements of the export file, in document order
    today,          \* datetime.now().strftime("%Y-%m-%d")
    playlist_url,   \* main: the stripped reference
    playlist_id,    \* get_playlist_data: the extracted identifier, if any
    playlist_name,  \* get_playlist_data: playlist['name']
    results,        \* get_playlist_data: the page held, as its number (0: none)
    tracks,         \* get_playlist_data: tracks / fetch_recent_liked: parsed
    limit,          \* liked-tracks main: limit
    rows,           \* xml_to_sheets: rows
    sheet_name,     \* the worksheet name
    written,        \* the block of values passed to ws.update
    spreadsheet,    \* the worksheets of the target spreadsheet, in order
    before,         \* history: the spreadsheet as this run found it
    io,             \* the external calls of this run, in order, with their outcome
    msg             \* the message the run ended with

inputs == <<script, env, stdin, argv, api, doc, today>>
locals == <<playlist_url, playlist_id, playlist_name, results, tracks, limit, rows, sheet_name, written>>
vars == <<script, pc, runs, env, stdin, argv, api, doc, today, playlist_url,
          playlist_id, playlist_name, results, tracks, limit, rows, sheet_name, written,
          spreadsheet, before, io, msg>>

\* an external call, the page it asks for (0: not a page request), and
\* whether it succeeded
Call(op, page, ok) == [op |-> op, page |-> page, ok |-> ok]

\* not os.getenv(var): unset or empty
Absent(var) == env[var] # "set"

RECURSIVE FirstAbsent(_)
\* the first variable of the list that is absent, if any
FirstAbsent(required) ==
    IF required = <<>> THEN None
    ELSE IF Absent(Head(required)) THEN Some(Head(required))
    ELSE FirstAbsent(Tail(required))

EnvVars ==
    {"SPOTIFY_CLIENT_ID", "SPOTIFY_CLIENT_SECRET", "SPOTIFY_REDIRECT_URI",
     "GDRIVE_CREDENTIALS_PATH", "SPREADSHEET_ID", "REKORDBOX_XML_PATH"}

(***************************************************************************)
(* The spreadsheet service, as the scripts call it                         *)
(***************************************************************************)
\* positions of the worksheets titled name
Titled(name) == {i \in 1..Len(spreadsheet) : spreadsheet[i].title = name}

\* spreadsheet.worksheet(name): the first worksheet with that title
Found(name) == CHOOSE i \in Titled(name) : \A j \in Titled(name) : i <= j

\* spreadsheet.del_worksheet(ws)
DelWorksheet(i) ==
    SubSeq(spreadsheet, 1, i - 1) \o SubSeq(spreadsheet, i + 1, Len(spreadsheet))

\* spreadsheet.add_worksheet(title, rows, cols): a new empty worksheet
AddWorksheet(title, nrows, ncols) ==
    Append(spreadsheet, [title |-> title, rows |-> nrows, cols |-> ncols, cells |-> <<>>])

\* ws.update("A1", values) on the worksheet created last
Update(values) ==
    [spreadsheet EXCEPT ![Len(spreadsheet)].cells = values]

(***************************************************************************)
(* A run ends                                                              *)
(***************************************************************************)
\* sys.exit(message) or an uncaught exception
Fatal(m) == pc' = "fatal" /\ msg' = m

\* the script returns or runs off its end
Finish(m) == pc' = "done" /\ msg' = m

Idle == pc \in {"idle", "done", "fatal"}

\* the per-run variables at process start
Fresh ==
    /\ playlist_url' = <<>>
    /\ playlist_id' = None
    /\ playlist_name' = <<>>
    /\ results' = 0
    /\ tracks' = <<>>
    /\ limit' = 0
    /\ rows' = <<>>
    /\ sheet_name' = <<>>
    /\ written' = <<>>
    /\ io' = <<>>
    /\ msg' = <<>>
    /\ before' = spreadsheet


(***************************************************************************)
(* playlist_to_sheets.py                                                   *)
(***************************************************************************)
RequiredVarsShort ==
    <<"SPOTIFY_CLIENT_ID", "SPOTIFY_CLIENT_SECRET", "SPOTIFY_REDIRECT_URI",
      "GDRIVE_CREDENTIALS_PATH">>
\* main: required_vars
required_vars ==
    <<"SPOTIFY_CLIENT_ID", "SPOTIFY_CLIENT_SECRET", "SPOTIFY_REDIRECT_URI",
      "GDRIVE_CREDENTIALS_PATH", "SPREADSHEET_ID">>

KeepsEmptyTitle(item) ==
    item.track # None /\ item.track[1].name # None
\* item['track'] and item['track']['name']
Keeps(item) ==
    item.track # None /\ item.track[1].name # None /\ item.track[1].name[1] # <<>>

\* ", ".join(a["name"] for a in track["artists"])
Artists(track) == Join(<<",", " ">>, track.artists)

\* the dictionary appended for one kept item
TrackEntry(item) ==
    [song        |-> item.track[1].name[1] \o <<" ", "-", " ">> \o Artists(item.track[1]),
     spotify_url |-> item.track[1].url]

RECURSIVE PageTracks(_)
\* the body of the loop over results['items']
PageTracks(items) ==
    IF items = <<>> THEN <<>>
    ELSE IF Keeps(Head(items)) THEN <<TrackEntry(Head(items))>> \o PageTracks(Tail(items))
    ELSE PageTracks(Tail(items))

NoTracksNever(ts) == FALSE
\* main: if not tracks
NoTracks(ts) == ts = <<>>

AfterLookupNoDelete(name) == "add"
\* create_sheets_worksheet: the try around the lookup; a worksheet found is
\* deleted, WorksheetNotFound is passed over
AfterLookup(name) == IF Titled(name) # {} THEN "delete" ELSE "add"

HasNextNever(page) == FALSE
\* if results['next']
HasNext(page) == page.next # 0

header == <<"Track #", "Song", "Spotify Link">>

RECURSIVE EnumRows(_, _)
\* for i, track in enumerate(tracks, i): rows.append([i, song, url])
EnumRows(ts, i) ==
    IF ts = <<>> THEN <<>>
    ELSE <<<<i, Head(ts).song, Head(ts).spotify_url>>>> \o EnumRows(Tail(ts), i + 1)

\* rows = [header] + the enumerated tracks
PlaylistRows(ts) == <<header>> \o EnumRows(ts, 1)

\* a new process runs the playlist script
StartPlaylist(e, u, a) ==
    /\ Idle
    /\ runs' = runs + 1
    /\ script' = "playlist" /\ pc' = "main"
    /\ env' = e /\ stdin' = u /\ api' = a
    /\ argv' = <<>> /\ doc' = <<>> /\ today' = <<>>
    /\ Fresh
    /\ UNCHANGED spreadsheet

\* main: the loop over required_vars
P_CheckEnv ==
    /\ script = "playlist" /\ pc = "main"
    /\ IF FirstAbsent(required_vars) # None
       THEN Fatal(<<"is not set", FirstAbsent(required_vars)[1]>>)
       ELSE pc' = "input" /\ msg' = msg
    /\ UNCHANGED <<runs, before, inputs, locals, spreadsheet, io>>

\* main: the prompt
P_Input ==
    /\ script = "playlist" /\ pc = "input"
    /\ playlist_url' = Strip(stdin)
    /\ IF Strip(stdin) = <<>>
       THEN Fatal(<<"No playlist URL provided">>)
       ELSE pc' = "fetch" /\ msg' = msg
    /\ UNCHANGED <<runs, before, inputs, playlist_id, playlist_name, results, tracks, limit,
                   rows, sheet_name, written, spreadsheet, io>>

\* get_playlist_data: extract_playlist_id, then sp.playlist
P_GetPlaylist ==
    /\ script = "playlist" /\ pc = "fetch"
    /\ playlist_id' = extract_playlist_id(playlist_url)
    /\ IF extract_playlist_id(playlist_url) = None
       THEN /\ Fatal(<<"Could not extract playlist ID">>)
            /\ UNCHANGED <<playlist_name, io>>
       ELSE \E ok \in BOOLEAN :
            /\ io' = Append(io, Call("playlist", 0, ok))
            /\ IF ok
               THEN playlist_name' = api.name /\ pc' = "tracks" /\ msg' = msg
               ELSE Fatal(<<"api error">>) /\ UNCHANGED playlist_name
    /\ UNCHANGED <<runs, before, inputs, playlist_url, results, tracks, limit, rows,
                   sheet_name, written, spreadsheet>>

\* get_playlist_data: sp.playlist_tracks
P_PlaylistTracks ==
    /\ script = "playlist" /\ pc = "tracks"
    /\ \E ok \in BOOLEAN :
        /\ io' = Append(io, Call("playlist_tracks", 1, ok))
        /\ IF ok
           THEN results' = 1 /\ pc' = "loop" /\ msg' = msg
           ELSE Fatal(<<"api error">>) /\ UNCHANGED results
    /\ UNCHANGED <<runs, before, inputs, playlist_url, playlist_id, playlist_name, tracks,
                   limit, rows, sheet_name, written, spreadsheet>>

\* get_playlist_data: one pass of the while loop, then (after the last page)
\* the return to main and its test of the tracks
P_Loop ==
    /\ script = "playlist" /\ pc = "loop"
    /\ tracks' = tracks \o PageTracks(api.pages[results].items)
    /\ IF HasNext(api.pages[results])
       THEN \E ok \in BOOLEAN :
            /\ io' = Append(io, Call("next", api.pages[results].next, ok))
            /\ IF ok
               THEN results' = api.pages[results].next /\ pc' = "loop" /\ msg' = msg
               ELSE Fatal(<<"api error">>) /\ UNCHANGED results
       ELSE /\ UNCHANGED <<io, results>>
            /\ IF NoTracks(tracks \o PageTracks(api.pages[results].items))
               THEN Finish(<<"No tracks found in the playlist.">>)
               ELSE pc' = "sheets" /\ msg' = msg
    /\ UNCHANGED <<runs, before, inputs, playlist_url, playlist_id, playlist_name, limit,
                   rows, sheet_name, written, spreadsheet>>

\* create_sheets_worksheet: credentials, authorize, open_by_key, sheet name
P_Open ==
    /\ script = "playlist" /\ pc = "sheets"
    /\ \E ok \in BOOLEAN :
        /\ io' = Append(io, Call("open", 0, ok))
        /\ IF ok
           THEN sheet_name' = SheetName(playlist_name) /\ pc' = "lookup" /\ msg' = msg
           ELSE Fatal(<<"api error">>) /\ UNCHANGED sheet_name
    /\ UNCHANGED <<runs, before, inputs, playlist_url, playlist_id, playlist_name, results,
                   tracks, limit, rows, written, spreadsheet>>

\* create_sheets_worksheet: spreadsheet.worksheet(sheet_name)
P_Lookup ==
    /\ script = "playlist" /\ pc = "lookup"
    /\ \E ok \in BOOLEAN :
        /\ io' = Append(io, Call("worksheet", 0, ok))
        /\ IF ~ok THEN Fatal(<<"api error">>)
           ELSE pc' = AfterLookup(sheet_name) /\ msg' = msg
    /\ UNCHANGED <<runs, before, inputs, locals, spreadsheet>>

\* create_sheets_worksheet: spreadsheet.del_worksheet(old_ws)
P_Delete ==
    /\ script = "playlist" /\ pc = "delete"
    /\ \E ok \in BOOLEAN :
        /\ io' = Append(io, Call("del_worksheet", 0, ok))
        /\ IF ok
           THEN /\ spreadsheet' = DelWorksheet(Found(sheet_name))
                /\ pc' = "add" /\ msg' = msg
           ELSE Fatal(<<"api error">>) /\ UNCHANGED spreadsheet
    /\ UNCHANGED <<runs, before, inputs, locals>>

\* create_sheets_worksheet: spreadsheet.add_worksheet; the service refuses a
\* title that a worksheet already carries
P_Add ==
    /\ script = "playlist" /\ pc = "add"
    /\ \E ok \in (IF Titled(sheet_name) # {} THEN {FALSE} ELSE BOOLEAN) :
        /\ io' = Append(io, Call("add_worksheet", 0, ok))
        /\ IF ok
           THEN /\ spreadsheet' = AddWorksheet(sheet_name, Len(tracks) + 1, 3)
                /\ pc' = "update" /\ msg' = msg
           ELSE Fatal(<<"api error">>) /\ UNCHANGED spreadsheet
    /\ UNCHANGED <<runs, before, inputs, locals>>

P_UpdateRetry ==
    /\ script = "playlist" /\ pc = "update"
    /\ written' = PlaylistRows(tracks)
    /\ \E ok \in BOOLEAN :
        /\ io' = Append(io, Call("update", 0, ok))
        /\ IF ok
           THEN spreadsheet' = Update(PlaylistRows(tracks)) /\ Finish(<<"Done!">>)
           ELSE pc' = "update" /\ msg' = msg /\ UNCHANGED spreadsheet
    /\ Len(io) < 12
    /\ UNCHANGED <<runs, before, inputs, playlist_url, playlist_id, playlist_name, results,
                   tracks, limit, rows, sheet_name>>
\* create_sheets_worksheet: ws.update("A1", rows)
P_Update ==
    /\ script = "playlist" /\ pc = "update"
    /\ written' = PlaylistRows(tracks)
    /\ \E ok \in BOOLEAN :
        /\ io' = Append(io, Call("update", 0, ok))
        /\ IF ok
           THEN spreadsheet' = Update(PlaylistRows(tracks)) /\ Finish(<<"Done!">>)
           ELSE Fatal(<<"api error">>) /\ UNCHANGED spreadsheet
    /\ UNCHANGED <<runs, before, inputs, playlist_url, playlist_id, playlist_name, results,
                   tracks, limit, rows, sheet_name>>

PlaylistSteps ==
    \/ P_CheckEnv \/ P_Input \/ P_GetPlaylist \/ P_PlaylistTracks \/ P_Loop
    \/ P_Open \/ P_Lookup \/ P_Delete \/ P_Add \/ P_Update


(***************************************************************************)
(* tests/xml_to_sheets.py                                                  *)
(***************************************************************************)
XmlRequired == <<"REKORDBOX_XML_PATH", "GDRIVE_CREDENTIALS_PATH", "SPREADSHEET_ID">>

FIELDS ==
    <<"TrackID", "Name", "Artist", "Album", "Genre", "TotalTime",
      "AverageBpm", "DateAdded", "PlayCount", "Rating", "Location">>

RowPresentOnly(attrib) ==
    LET present == SelectSeq(FIELDS, LAMBDA f : f \in DOMAIN attrib)
    IN  [i \in 1..Len(present) |-> attrib[present[i]]]
\* [ attrib.get(f, "") for f in FIELDS ]
Row(attrib) ==
    [i \in 1..Len(FIELDS) |->
        IF FIELDS[i] \in DOMAIN attrib THEN attrib[FIELDS[i]] ELSE <<>>]

RECURSIVE XmlRows(_)
\* the loop over root.findall(".//TRACK")
XmlRows(elements) ==
    IF elements = <<>> THEN <<>>
    ELSE <<Row(Head(elements))>> \o XmlRows(Tail(elements))

\* payload = [header] + rows
Payload(rs) == <<FIELDS>> \o rs

\* a new process runs the export-file script
StartXml(e, d, t) ==
    /\ Idle
    /\ runs' = runs + 1
    /\ script' = "xml" /\ pc' = "main"
    /\ env' = e /\ doc' = d /\ today' = t
    /\ stdin' = <<>> /\ argv' = <<>> /\ api' = [name |-> <<>>, pages |-> <<>>, liked |-> <<>>]
    /\ Fresh
    /\ UNCHANGED spreadsheet

\* the three checks at the top of the module
X_Config ==
    /\ script = "xml" /\ pc = "main"
    /\ IF FirstAbsent(XmlRequired) # None
       THEN Fatal(<<"is not set", FirstAbsent(XmlRequired)[1]>>)
       ELSE pc' = "parse" /\ msg' = msg
    /\ UNCHANGED <<runs, before, inputs, locals, spreadsheet, io>>

\* ET.parse(XML_PATH) and the loop that builds rows
X_Parse ==
    /\ script = "xml" /\ pc = "parse"
    /\ \E ok \in BOOLEAN :
        /\ io' = Append(io, Call("read_file", 0, ok))
        /\ IF ok
           THEN rows' = XmlRows(doc) /\ pc' = "sheets" /\ msg' = msg
           ELSE Fatal(<<"parse error">>) /\ UNCHANGED rows
    /\ UNCHANGED <<runs, before, inputs, playlist_url, playlist_id, playlist_name, results,
                   tracks, limit, sheet_name, written, spreadsheet>>

\* credentials, authorize, open_by_key, sheet name
X_Open ==
    /\ script = "xml" /\ pc = "sheets"
    /\ \E ok \in BOOLEAN :
        /\ io' = Append(io, Call("open", 0, ok))
        /\ IF ok
           THEN sheet_name' = today /\ pc' = "lookup" /\ msg' = msg
           ELSE Fatal(<<"api error">>) /\ UNCHANGED sheet_name
    /\ UNCHANGED <<runs, before, inputs, playlist_url, playlist_id, playlist_name, results,
                   tracks, limit, rows, written, spreadsheet>>

\* spreadsheet.worksheet(sheet_name)
X_Lookup ==
    /\ script = "xml" /\ pc = "lookup"
    /\ \E ok \in BOOLEAN :
        /\ io' = Append(io, Call("worksheet", 0, ok))
        /\ IF ~ok THEN Fatal(<<"api error">>)
           ELSE IF Titled(sheet_name) # {} THEN pc' = "delete" /\ msg' = msg
           ELSE pc' = "add" /\ msg' = msg
    /\ UNCHANGED <<runs, before, inputs, locals, spreadsheet>>

\* spreadsheet.del_worksheet(old_ws)
X_Delete ==
    /\ script = "xml" /\ pc = "delete"
    /\ \E ok \in BOOLEAN :
        /\ io' = Append(io, Call("del_worksheet", 0, ok))
        /\ IF ok
           THEN /\ spreadsheet' = DelWorksheet(Found(sheet_name))
                /\ pc' = "add" /\ msg' = msg
           ELSE Fatal(<<"api error">>) /\ UNCHANGED spreadsheet
    /\ UNCHANGED <<runs, before, inputs, locals>>

\* spreadsheet.add_worksheet; the service refuses a title already carried
X_Add ==
    /\ script = "xml" /\ pc = "add"
    /\ \E ok \in (IF Titled(sheet_name) # {} THEN {FALSE} ELSE BOOLEAN) :
        /\ io' = Append(io, Call("add_worksheet", 0, ok))
        /\ IF ok
           THEN /\ spreadsheet' = AddWorksheet(sheet_name, Len(rows) + 1, Len(FIELDS))
                /\ pc' = "update" /\ msg' = msg
           ELSE Fatal(<<"api error">>) /\ UNCHANGED spreadsheet
    /\ UNCHANGED <<runs, before, inputs, locals>>

\* ws.update("A1", payload)
X_Update ==
    /\ script = "xml" /\ pc = "update"
    /\ written' = Payload(rows)
    /\ \E ok \in BOOLEAN :
        /\ io' = Append(io, Call("update", 0, ok))
        /\ IF ok
           THEN spreadsheet' = Update(Payload(rows)) /\ Finish(<<"Done!">>)
           ELSE Fatal(<<"api error">>) /\ UNCHANGED spreadsheet
    /\ UNCHANGED <<runs, before, inputs, playlist_url, playlist_id, playlist_name, results,
                   tracks, limit, rows, sheet_name>>

XmlSteps ==
    \/ X_Config \/ X_Parse \/ X_Open \/ X_Lookup \/ X_Delete \/ X_Add \/ X_Update

(***************************************************************************)
(* tests/spotify_recent_likes.py                                           *)
(***************************************************************************)
DEFAULT_LIMIT == 20

LikedRequired == <<"SPOTIFY_CLIENT_ID", "SPOTIFY_CLIENT_SECRET", "SPOTIFY_REDIRECT_URI">>

DigitVal(c) ==
    CASE c = "0" -> 0 [] c = "1" -> 1 [] c = "2" -> 2 [] c = "3" -> 3 [] c = "4" -> 4
      [] c = "5" -> 5 [] c = "6" -> 6 [] c = "7" -> 7 [] c = "8" -> 8 [] c = "9" -> 9

RECURSIVE Decimal(_, _)
\* the value of a string of digits, most significant first
Decimal(ds, acc) ==
    IF ds = <<>> THEN acc ELSE Decimal(Tail(ds), 10 * acc + DigitVal(Head(ds)))

\* digits, single underscores allowed between them
DigitString(ds) ==
    /\ ds # <<>>
    /\ \A i \in 1..Len(ds) : ds[i] \in Digits \cup {"_"}
    /\ ds[1] # "_" /\ ds[Len(ds)] # "_"
    /\ \A i \in 1..(Len(ds) - 1) : ~(ds[i] = "_" /\ ds[i + 1] = "_")

\* int(s): None stands for the ValueError
ParseInt(s) ==
    LET t    == Strip(s)
        neg  == t # <<>> /\ t[1] = "-"
        body == IF t # <<>> /\ t[1] \in {"-", "+"} THEN Tail(t) ELSE t
    IN  IF DigitString(body)
        THEN Some((IF neg THEN -1 ELSE 1) * Decimal(ReSub(Digits, body), 0))
        ELSE None

RECURSIVE ReplaceZ(_)
\* s.replace("Z", "+00:00")
ReplaceZ(s) ==
    IF s = <<>> THEN <<>>
    ELSE IF Head(s) = "Z" THEN <<"+","0","0",":","0","0">> \o ReplaceZ(Tail(s))
    ELSE <<Head(s)>> \o ReplaceZ(Tail(s))

\* the dictionary appended for one item; added_at is the timestamp that
\* datetime.fromisoformat reads, written as its ISO string
LikedEntry(item) ==
    [title       |-> item.track[1].name,
     artists     |-> Artists(item.track[1]),
     added_at    |-> ReplaceZ(item.added_at),
     spotify_url |-> item.track[1].url]

RECURSIVE Parsed(_)
\* the loop of fetch_recent_liked over the items it is given
Parsed(items) ==
    IF items = <<>> THEN <<>>
    ELSE <<LikedEntry(Head(items))>> \o Parsed(Tail(items))

ClampNone(items, n) == items
\* results["items"][:limit]
Clamp(items, n) == Slice(items, n)

\* a new process runs the liked-tracks script
StartLiked(e, args, a) ==
    /\ Idle
    /\ runs' = runs + 1
    /\ script' = "liked" /\ pc' = "main"
    /\ env' = e /\ argv' = args /\ api' = a
    /\ stdin' = <<>> /\ doc' = <<>> /\ today' = <<>>
    /\ Fresh
    /\ UNCHANGED spreadsheet

\* main: the loop over the required variables
L_CheckEnv ==
    /\ script = "liked" /\ pc = "main"
    /\ IF FirstAbsent(LikedRequired) # None
       THEN Fatal(<<"is not set", FirstAbsent(LikedRequired)[1]>>)
       ELSE pc' = "args" /\ msg' = msg
    /\ UNCHANGED <<runs, before, inputs, locals, spreadsheet, io>>

\* main: limit = int(sys.argv[1]) if len(sys.argv) > 1 else DEFAULT_LIMIT
L_ParseArgs ==
    /\ script = "liked" /\ pc = "args"
    /\ IF argv = <<>>
       THEN limit' = DEFAULT_LIMIT /\ pc' = "fetch" /\ msg' = msg
       ELSE IF ParseInt(argv[1]) = None
       THEN Fatal(<<"Usage: python recent_likes.py [number_of_tracks]">>) /\ UNCHANGED limit
       ELSE limit' = ParseInt(argv[1])[1] /\ pc' = "fetch" /\ msg' = msg
    /\ UNCHANGED <<runs, before, inputs, playlist_url, playlist_id, playlist_name, results,
                   tracks, rows, sheet_name, written, spreadsheet, io>>

\* fetch_recent_liked, then main's report
L_Fetch ==
    /\ script = "liked" /\ pc = "fetch"
    /\ \E ok \in BOOLEAN :
        /\ io' = Append(io, Call("current_user_saved_tracks", 0, ok))
        /\ IF ok
           THEN /\ tracks' = Parsed(Clamp(api.liked, limit))
                /\ IF Parsed(Clamp(api.liked, limit)) = <<>>
                   THEN Finish(<<"No saved tracks found.">>)
                   ELSE Finish(<<"Your most-recent liked songs">>)
           ELSE Fatal(<<"api error">>) /\ UNCHANGED tracks
    /\ UNCHANGED <<runs, before, inputs, playlist_url, playlist_id, playlist_name, results,
                   limit, rows, sheet_name, written, spreadsheet>>

LikedSteps == L_CheckEnv \/ L_ParseArgs \/ L_Fetch


(***************************************************************************)
(* Inputs                                                                  *)
(***************************************************************************)
\* all sequences of at most n elements of S
SeqsUpTo(S, n) == UNION {[1..k -> S] : k \in 0..n}

FullEnv == [v \in EnvVars |-> "set"]
AllEnvs == [EnvVars -> {"unset", "empty", "set"}]

UrlChunks ==
    {PathLit, UriLit, <<"a">>, <<"7">>, <<"-">>, <<"?">>, <<"#">>, <<" ">>}
UrlInputs == {Flat(cs) : cs \in SeqsUpTo(UrlChunks, MaxUrlChunks)}
GoodUrl == PathLit \o <<"a", "7">>

LongChunk == [i \in 1..LongRun |-> "x"]
NameChunks ==
    {<<"a">>, <<"7">>, <<"_">>, <<"-">>, <<" ">>, <<"/">>, <<"!">>, LongChunk}
ExampleName ==
    <<"M","y","/","P","l","a","y","l","i","s","t",":"," ",
      "S","u","m","m","e","r"," ","'","2","4","!">>
ExampleSheet ==
    <<"M","y","P","l","a","y","l","i","s","t"," ",
      "S","u","m","m","e","r"," ","2","4">>
LongNameInput == [i \in 1..LongName |-> "x"]
NameInputs ==
    {Flat(cs) : cs \in SeqsUpTo(NameChunks, MaxNameChunks)}
        \cup {ExampleName, LongNameInput}
DateName == <<"2","0","2","5","-","0","4","-","2","6">>

Url1 == <<"u","1">>
Url2 == <<"u","2">>
Stamp == <<"2","0","2","5","-","0","4","-","2","6","T","1","0",":","0","0",":","0","0","Z">>
TrackA == [name |-> Some(<<"A">>), artists |-> <<>>, url |-> Url1]
TrackB == [name |-> Some(<<"B">>), artists |-> <<<<"x">>, <<"y">>>>, url |-> Url2]
TrackEmptyTitle == [name |-> Some(<<>>), artists |-> <<<<"x">>>>, url |-> Url1]
TrackNullTitle == [name |-> None, artists |-> <<<<"x">>>>, url |-> Url2]
Item(t) == [track |-> t, added_at |-> Stamp]

\* raw playlist items: a null track, a null title, an empty title, two songs
PlaylistItems ==
    {Item(None), Item(Some(TrackNullTitle)), Item(Some(TrackEmptyTitle)),
     Item(Some(TrackA)), Item(Some(TrackB))}
\* raw liked items: every item carries a track
LikedItems == {Item(Some(TrackNullTitle)), Item(Some(TrackA)), Item(Some(TrackB))}

\* n pages holding the items of flat, cut at the positions cuts; the pages
\* 1..m are chained by their next indicator, the others are never linked
Pages(flat, cuts, n, m) ==
    [i \in 1..n |->
        [items |-> SubSeq(flat, (IF i = 1 THEN 0 ELSE cuts[i - 1]) + 1,
                                IF i = n THEN Len(flat) ELSE cuts[i]),
         next  |-> IF i < m THEN i + 1 ELSE 0]]
Cuts(len, n) ==
    {c \in [1..(n - 1) -> 0..len] : \A i \in 1..(n - 2) : c[i] <= c[i + 1]}
PageInputs ==
    UNION {UNION {{Pages(flat, cuts, n, m) : cuts \in Cuts(Len(flat), n), m \in 1..n}
                  : flat \in SeqsUpTo(PlaylistItems, MaxItems)}
           : n \in 1..MaxPages}

PlaylistApi(name, pages) == [name |-> name, pages |-> pages, liked |-> <<>>]
LikedApi(items) == [name |-> <<>>, pages |-> <<>>, liked |-> items]
OnePage(items) == <<[items |-> items, next |-> 0]>>
\* two pages, the second reached through the first one's next indicator
Api0 ==
    PlaylistApi(<<"a">>,
        <<[items |-> <<Item(Some(TrackA))>>, next |-> 2],
          [items |-> <<Item(None), Item(Some(TrackB))>>, next |-> 0]>>)

ArgChars == {"0", "2", "7", "-", "x"}
ArgInputs ==
    {<<>>, <<<<"2", "0">>>>}
        \cup {<<a>> : a \in SeqsUpTo(ArgChars, MaxArgLen) \ {<<>>}}
BigResponse ==
    [i \in 1..BigLiked |->
        IF i % 3 = 0 THEN Item(Some(TrackNullTitle))
        ELSE IF i % 3 = 1 THEN Item(Some(TrackA)) ELSE Item(Some(TrackB))]
LikedInputs == SeqsUpTo(LikedItems, MaxLiked) \cup {BigResponse}

Element1 ==
    [TrackID |-> <<"1">>, Name |-> <<"A">>, Artist |-> <<"x">>, Album |-> <<"l">>,
     Genre |-> <<"g">>, TotalTime |-> <<"9">>, AverageBpm |-> <<"1","2","0">>,
     DateAdded |-> DateName, PlayCount |-> <<"3">>, Rating |-> <<"0">>,
     Location |-> <<"f">>]
ElementNoName == [TrackID |-> <<"2">>, Artist |-> <<"y">>, Kind |-> <<"k">>]
ElementBare == [Kind |-> <<"k">>]
DocInputs == SeqsUpTo({Element1, ElementNoName, ElementBare}, MaxDoc)

\* the spreadsheet before the first run: new, or holding worksheets that
\* earlier runs of the two scripts left
Sheet1 ==
    [title |-> <<"S","h","e","e","t","1">>, rows |-> 1000, cols |-> 26, cells |-> <<>>]
OldPlaylistSheet ==
    [title |-> <<"a">>, rows |-> 2, cols |-> 3,
     cells |-> PlaylistRows(<<TrackEntry(Item(Some(TrackB)))>>)]
OldXmlSheet ==
    [title |-> DateName, rows |-> 2, cols |-> Len(FIELDS),
     cells |-> Payload(<<Row(ElementNoName)>>)]
InitialSheets == {<<Sheet1>>, <<Sheet1, OldPlaylistSheet, OldXmlSheet>>}

Init ==
    /\ script = "none" /\ pc = "idle" /\ runs = 0
    /\ env = FullEnv /\ stdin = <<>> /\ argv = <<>>
    /\ api = PlaylistApi(<<>>, <<>>) /\ doc = <<>> /\ today = <<>>
    /\ playlist_url = <<>> /\ playlist_id = None /\ playlist_name = <<>>
    /\ results = 0 /\ tracks = <<>> /\ limit = 0 /\ rows = <<>>
    /\ sheet_name = <<>> /\ written = <<>>
    /\ spreadsheet \in InitialSheets
    /\ before = spreadsheet
    /\ io = <<>> /\ msg = <<>>

(***************************************************************************)
(* Specifications: the scripts over the inputs each group of properties    *)
(* ranges over                                                             *)
(***************************************************************************)
\* the playlist script, once, over the references a user can type
StartExtract ==
    /\ Idle /\ runs < 1
    /\ \E u \in UrlInputs : StartPlaylist(FullEnv, u, Api0)
NextExtract == StartExtract \/ PlaylistSteps
SpecExtract == Init /\ [][NextExtract]_vars

\* the playlist script, once, over playlist names
StartSanitize ==
    /\ Idle /\ runs < 1
    /\ \E nm \in NameInputs : StartPlaylist(FullEnv, GoodUrl, PlaylistApi(nm, Api0.pages))
NextSanitize == StartSanitize \/ PlaylistSteps
SpecSanitize == Init /\ [][NextSanitize]_vars

\* the playlist script, once, over paginated playlists
StartPaginated ==
    /\ Idle /\ runs < 1
    /\ \E ps \in PageInputs : StartPlaylist(FullEnv, GoodUrl, PlaylistApi(<<"a">>, ps))
NextPlaylist == StartPaginated \/ PlaylistSteps
SpecPlaylist == Init /\ [][NextPlaylist]_vars

\* the liked-tracks script, once, over arguments and responses
StartLikedArgs ==
    /\ Idle /\ runs < 1
    /\ \E args \in ArgInputs, items \in LikedInputs :
          StartLiked(FullEnv, args, LikedApi(items))
NextLiked == StartLikedArgs \/ LikedSteps
SpecLiked == Init /\ [][NextLiked]_vars

\* the liked-tracks and export-file scripts, once, over their records
StartLikedRecords ==
    /\ Idle /\ runs < 1
    /\ \E items \in LikedInputs : StartLiked(FullEnv, <<>>, LikedApi(items))
StartXmlRecords ==
    /\ Idle /\ runs < 1
    /\ \E d \in DocInputs : StartXml(FullEnv, d, DateName)
NextRecords == StartLikedRecords \/ StartXmlRecords \/ LikedSteps \/ XmlSteps
SpecRecords == Init /\ [][NextRecords]_vars

\* each of the three scripts, once, over every environment
StartConfig ==
    /\ Idle /\ runs < 1
    /\ \E e \in AllEnvs :
        \/ StartPlaylist(e, GoodUrl, Api0)
        \/ StartLiked(e, <<>>, LikedApi(<<Item(Some(TrackA))>>))
        \/ StartXml(e, <<Element1>>, DateName)
NextConfig == StartConfig \/ PlaylistSteps \/ LikedSteps \/ XmlSteps
SpecConfig == Init /\ [][NextConfig]_vars

\* runs of the playlist and export-file scripts, one after another, against
\* the same spreadsheet
SheetNames == {<<"a">>, <<"a", "!">>, <<"!">>, DateName}
SheetPages ==
    {OnePage(<<>>), OnePage(<<Item(None)>>), OnePage(<<Item(Some(TrackA))>>),
     OnePage(<<Item(Some(TrackB)), Item(Some(TrackA))>>)}
StartSheetsPlaylist ==
    /\ Idle /\ runs < MaxRuns
    /\ \E nm \in SheetNames, ps \in SheetPages :
          StartPlaylist(FullEnv, GoodUrl, PlaylistApi(nm, ps))
StartSheetsXml ==
    /\ Idle /\ runs < MaxRuns
    /\ \E d \in DocInputs : StartXml(FullEnv, d, DateName)
Next == StartSheetsPlaylist \/ StartSheetsXml \/ PlaylistSteps \/ XmlSteps
Spec == Init /\ [][Next]_vars


(***************************************************************************)
(* Properties                                                              *)
(***************************************************************************)
Last(q) == q[Len(q)]
\* the successful calls of this run named op
Succeeded(op) == {i \in 1..Len(io) : io[i].op = op /\ io[i].ok}
\* the calls of this run that failed
Failed == {i \in 1..Len(io) : ~io[i].ok}
\* the k-th smallest element of a set of integers
Kth(S, k) == CHOOSE i \in S : Cardinality({j \in S : j <= i}) = k

\* ---- extract_playlist_id -------------------------------------------------
\* extract_playlist_id has returned or raised in this run
Extracted ==
    /\ script = "playlist"
    /\ io # <<>> \/ (pc = "fatal" /\ msg = <<"Could not extract playlist ID">>)
\* the reference up to, and without, its first '?' or '#'
Stripped ==
    SubSeq(playlist_url, 1,
           Least({i \in 1..Len(playlist_url) : playlist_url[i] \in {"?", "#"}}
                 \cup {Len(playlist_url) + 1}) - 1)
\* where lit occurs in the stripped reference
Occurrences(lit) == {i \in 1..Len(Stripped) : LitAt(lit, Stripped, i)}
\* the maximal alphanumeric run of the stripped reference that starts at a
MaximalRun(a) ==
    SubSeq(Stripped, a,
           Least({j \in a..Len(Stripped) : Stripped[j] \notin Alnum}
                 \cup {Len(Stripped) + 1}) - 1)
\* where lit occurs followed by at least one alphanumeric character
Shapes(lit) == {i \in Occurrences(lit) : MaximalRun(i + Len(lit)) # <<>>}
RunAfterFirst(lit, at) ==
    IF at = {} THEN <<>> ELSE MaximalRun(Least(at) + Len(lit))

\* C1 as stated: the identifier is the run after the first 'playlist/' when
\* that run is not empty, else the run after the first 'playlist:'; a
\* reference with neither shape fails
C1_AsStated ==
    Extracted =>
        IF Shapes(PathLit) = {} /\ Shapes(UriLit) = {}
        THEN playlist_id = None /\ pc = "fatal" /\ io = <<>>
        ELSE IF RunAfterFirst(PathLit, Occurrences(PathLit)) # <<>>
        THEN playlist_id = Some(RunAfterFirst(PathLit, Occurrences(PathLit)))
        ELSE playlist_id = Some(RunAfterFirst(UriLit, Occurrences(UriLit)))

\* C1 amended: the identifier is the maximal alphanumeric run after the first
\* 'playlist/' that an alphanumeric character follows, if there is one, else
\* the run after the first 'playlist:' that an alphanumeric character
\* follows; a reference with neither shape fails before any request
C1_Extract ==
    Extracted =>
        IF Shapes(PathLit) # {}
        THEN playlist_id = Some(RunAfterFirst(PathLit, Shapes(PathLit)))
        ELSE IF Shapes(UriLit) # {}
        THEN playlist_id = Some(RunAfterFirst(UriLit, Shapes(UriLit)))
        ELSE playlist_id = None /\ pc = "fatal" /\ io = <<>>

\* an identifier was extracted although no identifier follows the first
\* 'playlist/', from a reference that carries a query string
C1_Witness ==
    /\ Extracted /\ playlist_id # None
    /\ Occurrences(PathLit) # {}
    /\ Least(Occurrences(PathLit)) \notin Shapes(PathLit)
    /\ Len(Stripped) < Len(playlist_url)

\* ---- the worksheet name --------------------------------------------------
\* create_sheets_worksheet has just computed the worksheet name
Named == script = "playlist" /\ pc = "lookup"
Allowed == Word \cup Space \cup {"-"}
\* positions of the playlist name that survive: allowed characters between
\* the first and the last allowed character that is not whitespace
Core ==
    LET ink == {i \in 1..Len(playlist_name) :
                    playlist_name[i] \in Allowed \ Space}
    IN  {i \in 1..Len(playlist_name) :
            /\ playlist_name[i] \in Allowed
            /\ ink # {} /\ Least(ink) <= i /\ i <= Greatest(ink)}

\* C6: the worksheet name is the playlist name with the characters outside
\* [word, whitespace, hyphen] removed, then trimmed, then cut to its first
\* 100 characters; so it has at most 100 characters, all of them allowed;
\* 100 or more allowed non-blank characters give exactly 100; the example
\* name gives "MyPlaylist Summer 24"
C6_SheetName ==
    Named =>
        /\ Len(sheet_name) = IF Cardinality(Core) < 100 THEN Cardinality(Core) ELSE 100
        /\ LET core == Core
           IN  \A i \in core :
                  LET k == Cardinality({j \in core : j <= i})
                  IN  k <= 100 => sheet_name[k] = playlist_name[i]
        /\ Len(sheet_name) <= 100
        /\ \A k \in 1..Len(sheet_name) : sheet_name[k] \in Allowed
        /\ (Len(playlist_name) >= 100
              /\ \A i \in 1..Len(playlist_name) : playlist_name[i] \in Allowed \ Space)
            => Len(sheet_name) = 100
        /\ playlist_name = ExampleName => sheet_name = ExampleSheet

\* a name that loses a character to the removal and more to the cut
C6_Witness ==
    /\ Named
    /\ \E i \in 1..Len(playlist_name) : playlist_name[i] \notin Allowed
    /\ Cardinality(Core) > 100
    /\ Len(sheet_name) = 100

\* ---- the playlist's pages and rows ---------------------------------------
RECURSIVE ChainFrom(_)
\* the pages linked from page i by their next indicators
ChainFrom(i) ==
    <<i>> \o (IF api.pages[i].next = 0 THEN <<>> ELSE ChainFrom(api.pages[i].next))
\* the pages this run asked for, in order, failed requests included
Requested ==
    LET at == {i \in 1..Len(io) : io[i].op \in {"playlist_tracks", "next"}}
    IN  [k \in 1..Cardinality(at) |-> io[Kth(at, k)].page]
\* the raw items of a sequence of pages, in order
RECURSIVE ItemsOf(_)
ItemsOf(ps) ==
    IF ps = <<>> THEN <<>> ELSE api.pages[Head(ps)].items \o ItemsOf(Tail(ps))
\* the loop of get_playlist_data has ended normally in this run
LoopDone ==
    /\ script = "playlist"
    /\ Succeeded("playlist_tracks") # {}
    /\ pc \in {"sheets", "lookup", "delete", "add", "update", "done"}
        \/ (pc = "fatal" /\ Succeeded("open") \cup {i \in Failed : io[i].op = "open"} # {})
\* positions of the raw items that are not dropped
Kept(raw) ==
    {i \in 1..Len(raw) :
        /\ raw[i].track # None
        /\ raw[i].track[1].name \notin {None, Some(<<>>)}}

\* C2: an item with a null track or a null or empty title gives no row; the
\* rows are as many as the raw items less the dropped ones, in the order of
\* the raw items, and numbered 1..N without a gap
C2_Rows ==
    LoopDone =>
        LET raw == ItemsOf(ChainFrom(1))
        IN  /\ Len(tracks) = Len(raw) - Cardinality((1..Len(raw)) \ Kept(raw))
            /\ \A k \in 1..Len(tracks) :
                  /\ tracks[k].spotify_url = raw[Kth(Kept(raw), k)].track[1].url
                  /\ tracks[k].song =
                        raw[Kth(Kept(raw), k)].track[1].name[1] \o <<" ", "-", " ">>
                          \o Join(<<",", " ">>, raw[Kth(Kept(raw), k)].track[1].artists)
            /\ written # <<>> =>
                  /\ Len(written) = Len(tracks) + 1
                  /\ written[1] = <<"Track #", "Song", "Spotify Link">>
                  /\ \A k \in 1..Len(tracks) :
                        written[k + 1] = <<k, tracks[k].song, tracks[k].spotify_url>>

\* rows were written for a playlist that has a dropped item between kept ones
C2_Witness ==
    /\ LoopDone /\ pc = "done" /\ Len(written) >= 3
    /\ \E i, j, k \in 1..Len(ItemsOf(ChainFrom(1))) :
          /\ i < j /\ j < k
          /\ i \in Kept(ItemsOf(ChainFrom(1)))
          /\ j \notin Kept(ItemsOf(ChainFrom(1)))
          /\ k \in Kept(ItemsOf(ChainFrom(1)))

\* C3: the loop asks for the next page exactly while the page held has its
\* next indicator set, stops at the first page without one, and accumulates
\* the items of the pages visited, each once, in page order
C3_Pagination ==
    (script = "playlist" /\ Succeeded("playlist_tracks") # {}) =>
        LET chain == ChainFrom(1)
        IN  /\ Len(Requested) <= Len(chain)
            /\ \A k \in 1..Len(Requested) : Requested[k] = chain[k]
            /\ pc = "loop" =>
                  /\ results = Last(Requested)
                  /\ tracks = PageTracks(ItemsOf(SubSeq(chain, 1, Len(Requested) - 1)))
            /\ LoopDone =>
                  /\ Requested = chain
                  /\ api.pages[Last(Requested)].next = 0
                  /\ \A k \in 1..(Len(Requested) - 1) : api.pages[Requested[k]].next # 0
                  /\ tracks = PageTracks(ItemsOf(chain))

\* the loop ended after two or more pages, leaving a page never asked for
C3_Witness ==
    /\ LoopDone
    /\ Len(ChainFrom(1)) >= 2
    /\ Len(api.pages) > Len(ChainFrom(1))
    /\ Len(tracks) >= 2


\* ---- liked tracks --------------------------------------------------------
\* an optional sign and then digits
PlainInteger(a) ==
    /\ a # <<>>
    /\ LET body == IF a[1] \in {"-", "+"} THEN Tail(a) ELSE a
       IN  body # <<>> /\ \A i \in 1..Len(body) : body[i] \in Digits
\* n is the number that the plain integer a writes
Writes(a, n) ==
    LET body == IF a[1] \in {"-", "+"} THEN Tail(a) ELSE a
        abs  == IF n < 0 THEN -n ELSE n
    IN  /\ n < 0 => a[1] = "-"
        /\ (n > 0 /\ a[1] = "-") => FALSE
        /\ abs < 10 ^ Len(body)
        /\ \A i \in 1..Len(body) :
              DigitVal(body[i]) = (abs \div (10 ^ (Len(body) - i))) % 10

\* C7: one request is issued; with a limit L >= 0 the result is the
\* normalization of the first min(L, n) items of the response, in order, so it
\* never has more than L entries (25 items, limit 20: exactly 20); an
\* argument that is no integer ends the run with the usage error before any
\* request
C7_Liked ==
    script = "liked" =>
        /\ Len(io) <= 1
        /\ pc \in {"fetch", "done"} =>
              IF argv = <<>> THEN limit = 20
              ELSE PlainInteger(argv[1]) /\ Writes(argv[1], limit)
        /\ pc = "done" =>
              /\ Len(io) = 1 /\ io[1].op = "current_user_saved_tracks"
              /\ limit >= 0 =>
                    LET m == IF limit < Len(api.liked) THEN limit ELSE Len(api.liked)
                    IN  /\ Len(tracks) = m
                        /\ Len(tracks) <= limit
                        /\ \A i \in 1..m :
                              /\ tracks[i].title = api.liked[i].track[1].name
                              /\ tracks[i].spotify_url = api.liked[i].track[1].url
                              /\ tracks[i].artists =
                                    Join(<<",", " ">>, api.liked[i].track[1].artists)
              /\ (Len(api.liked) >= 25 /\ limit = 20) => Len(tracks) = 20
        /\ (argv # <<>> /\ ~PlainInteger(argv[1]) /\ pc \notin {"main", "args"}) =>
              /\ pc = "fatal"
              /\ msg = <<"Usage: python recent_likes.py [number_of_tracks]">>
              /\ io = <<>>

\* the default limit cut a response of more items than the limit
C7_Witness ==
    /\ script = "liked" /\ pc = "done"
    /\ limit = 20 /\ Len(api.liked) > 20 /\ Len(tracks) = 20

\* C9 as stated: the liked-tracks and file variants emit one output per
\* record, a null or absent title being emitted as the empty string
C9_AsStated ==
    /\ (script = "liked" /\ pc = "done") =>
          /\ Len(tracks) = (IF limit < Len(api.liked) THEN limit ELSE Len(api.liked))
          /\ \A i \in 1..Len(tracks) :
                api.liked[i].track[1].name = None => tracks[i].title = Some(<<>>)
    /\ (script = "xml" /\ Succeeded("read_file") # {}) =>
          /\ Len(rows) = Len(doc)
          /\ \A i \in 1..Len(rows) : "Name" \notin DOMAIN doc[i] => rows[i][2] = <<>>

\* C9 amended: the liked-tracks and file variants emit one output per record;
\* the liked-tracks variant passes the title through unchanged, a null title
\* staying null; the file variant emits the listed attributes in the fixed
\* order, the empty string standing for each one the record lacks
C9_Records ==
    /\ (script = "liked" /\ pc = "done") =>
          /\ Len(tracks) = (IF limit < Len(api.liked) THEN limit ELSE Len(api.liked))
          /\ \A i \in 1..Len(tracks) : tracks[i].title = api.liked[i].track[1].name
    /\ (script = "xml" /\ Succeeded("read_file") # {}) =>
          /\ Len(rows) = Len(doc)
          /\ \A i \in 1..Len(rows) :
                /\ Len(rows[i]) = 11
                /\ \A k \in 1..11 :
                      rows[i][k] = IF FIELDS[k] \in DOMAIN doc[i]
                                   THEN doc[i][FIELDS[k]] ELSE <<>>
                /\ "Name" \notin DOMAIN doc[i] => rows[i][2] = <<>>

\* a liked track with a null title was emitted, its title still null
C9_Witness ==
    /\ script = "liked" /\ pc = "done"
    /\ \E i \in 1..Len(tracks) :
          api.liked[i].track[1].name = None /\ tracks[i].title = None

\* ---- configuration -------------------------------------------------------
\* what each script needs from the environment
RequiredBy(sc) ==
    IF sc = "playlist"
    THEN {"SPOTIFY_CLIENT_ID", "SPOTIFY_CLIENT_SECRET", "SPOTIFY_REDIRECT_URI",
          "GDRIVE_CREDENTIALS_PATH", "SPREADSHEET_ID"}
    ELSE IF sc = "liked"
    THEN {"SPOTIFY_CLIENT_ID", "SPOTIFY_CLIENT_SECRET", "SPOTIFY_REDIRECT_URI"}
    ELSE IF sc = "xml"
    THEN {"REKORDBOX_XML_PATH", "GDRIVE_CREDENTIALS_PATH", "SPREADSHEET_ID"}
    ELSE {}

\* C8: a run that lacks a value its script requires ends in the fatal state
\* with a message naming a missing value, having made no request, read no
\* file and touched no worksheet
C8_Config ==
    ((\E v \in RequiredBy(script) : env[v] # "set") /\ pc # "main") =>
        /\ pc = "fatal"
        /\ Len(msg) = 2 /\ msg[1] = "is not set"
        /\ msg[2] \in RequiredBy(script) /\ env[msg[2]] # "set"
        /\ io = <<>>
        /\ spreadsheet = before

\* the playlist script stopped on the last variable of its list
C8_Witness ==
    /\ script = "playlist" /\ pc = "fatal"
    /\ msg = <<"is not set", "SPREADSHEET_ID">>
    /\ env["GDRIVE_CREDENTIALS_PATH"] = "set"

\* ---- the worksheet -------------------------------------------------------
Sheets == script \in {"playlist", "xml"}
\* the rows this run holds
RowSeq == IF script = "playlist" THEN tracks ELSE rows
\* the block of values a run with these rows writes
Block ==
    IF script = "playlist"
    THEN <<<<"Track #", "Song", "Spotify Link">>>>
            \o [k \in 1..Len(tracks) |-> <<k, tracks[k].song, tracks[k].spotify_url>>]
    ELSE <<FIELDS>> \o rows
\* the run has its rows: retrieval is over
Retrieved ==
    \/ LoopDone
    \/ script = "xml" /\ Succeeded("read_file") # {}
\* the worksheets of q not titled name
Without(q, name) == SelectSeq(q, LAMBDA w : w.title # name)

\* C4: no two worksheets ever carry the same title; a worksheet of the name
\* is deleted before the new one is created; a name not found is no error;
\* after a successful write exactly one worksheet carries the name, holding
\* the header and this run's rows, and every other worksheet is as before
C4_Replace ==
    /\ \A i, j \in 1..Len(spreadsheet) :
          spreadsheet[i].title = spreadsheet[j].title => i = j
    /\ Sheets =>
          /\ pc = "add" => Titled(sheet_name) = {}
          /\ (pc = "fatal" /\ io # <<>>) => ~Last(io).ok
          /\ (io # <<>> /\ Last(io) = Call("worksheet", 0, TRUE)) =>
                pc = (IF \E i \in 1..Len(before) : before[i].title = sheet_name
                      THEN "delete" ELSE "add")
          /\ (pc = "done" /\ Succeeded("update") # {}) =>
                /\ Cardinality(Titled(sheet_name)) = 1
                /\ spreadsheet[Found(sheet_name)].cells = Block
                /\ Without(spreadsheet, sheet_name) = Without(before, sheet_name)
                /\ script = "xml" => sheet_name = today

\* a second run replaced the worksheet that the run before it had written
C4_Witness ==
    /\ Sheets /\ pc = "done" /\ runs >= 2
    /\ Succeeded("del_worksheet") # {} /\ Succeeded("update") # {}
    /\ \E i \in 1..Len(before) :
          /\ before[i].title = sheet_name
          /\ Len(before[i].cells) > Len(Block)
    /\ Len(spreadsheet) >= 3

\* C5 as stated: in both variants a run with no rows skips the write: it
\* creates no worksheet and writes no header
C5_AsStated ==
    (Sheets /\ Retrieved /\ RowSeq = <<>>) =>
        /\ Succeeded("add_worksheet") = {}
        /\ Succeeded("update") = {}

\* C5 amended: the playlist variant with no rows makes no spreadsheet call,
\* leaves the spreadsheet as it was and ends normally with its message; the
\* file variant has no such test and writes the header alone
C5_Empty ==
    /\ (script = "playlist" /\ LoopDone /\ tracks = <<>>) =>
          /\ pc = "done"
          /\ msg = <<"No tracks found in the playlist.">>
          /\ \A i \in 1..Len(io) : io[i].op \in {"playlist", "playlist_tracks", "next"}
          /\ spreadsheet = before
    /\ (script = "playlist" /\ pc \in {"sheets", "lookup", "delete", "add", "update"}) =>
          tracks # <<>>
    /\ (script = "xml" /\ Retrieved /\ rows = <<>> /\ pc = "done") =>
          /\ Cardinality(Titled(today)) = 1
          /\ spreadsheet[Found(today)].cells = <<FIELDS>>

\* the file variant wrote a worksheet that holds the header alone
C5_Witness ==
    /\ script = "xml" /\ pc = "done" /\ rows = <<>>
    /\ Titled(today) # {}
    /\ spreadsheet[Found(today)].cells = <<FIELDS>>
    /\ spreadsheet[Found(today)].rows = 1

\* C10 as stated: a run in which a step fails ends in the fatal state without
\* a retry, and leaves no worksheet of its own that is empty or holds part
\* of its block
C10_AsStated ==
    (Sheets /\ Failed # {}) =>
        /\ pc = "fatal" /\ Failed = {Len(io)}
        /\ Succeeded("add_worksheet") # {} =>
              \A i \in Titled(sheet_name) : spreadsheet[i].cells = Block

\* C10 amended: a failed call is the last call of its run, which ends in the
\* fatal state; no worksheet ever holds part of a block; but a failed batch
\* write leaves the empty worksheet the run created, and a failure after
\* the deletion leaves the old worksheet deleted
C10_Failure ==
    (Sheets /\ Failed # {}) =>
        /\ pc = "fatal" /\ Failed = {Len(io)}
        /\ \A i, j \in 1..Len(io) :
              (io[i].op = io[j].op /\ io[i].page = io[j].page) => i = j
        /\ IF Last(io).op = "update"
           THEN spreadsheet =
                   Append(Without(before, sheet_name),
                          [title |-> sheet_name, rows |-> Len(RowSeq) + 1,
                           cols |-> Len(Block[1]), cells |-> <<>>])
           ELSE IF Last(io).op = "add_worksheet"
           THEN spreadsheet = Without(before, sheet_name)
           ELSE spreadsheet = before

\* the batch write failed after the old worksheet of the name was deleted
C10_Witness ==
    /\ Sheets /\ pc = "fatal" /\ io # <<>> /\ Last(io).op = "update"
    /\ \E i \in 1..Len(before) : before[i].title = sheet_name /\ before[i].cells # <<>>
    /\ Titled(sheet_name) # {}
    /\ spreadsheet[Found(sheet_name)].cells = <<>>

=============================================================================
